---- MODULE Spec2Model ----
(***************************************************************************)
(* Crown light exposure (crown_light_exposure.py) and the angle-to-azimuth *)
(* conversion of distance_direction.py, as state machines.                 *)
(*                                                                         *)
(* Geometry is abstracted to what the script reads back from it:           *)
(*  - the hull line of a crown is the set of unit segments 1..perim[id];   *)
(*  - a shadow hull is the set of segments of that line space it covers;   *)
(*  - the clipped surface model is a strip of cells, cell -> height, a     *)
(*    cell missing from the domain being no-data;                          *)
(*  - a ratio is the pair [num, den] (no rounding).                        *)
(* Temporary datasets are tracked by the suffix of their name in `temps`.  *)
(***************************************************************************)
EXTENDS Integers, Sequences, FiniteSets, TLC

\* ------------------------------------------------------------- bounds
MaxTrees == 2
MaxSurr == 1
MaxCells == 2
MaxH == 1
MaxPerim == 2
AngleSpan == 180
MaxAngle == 359

\* ------------------------------------------------- program constants
RemapLo == 0
RemapHi == 10000

VARIABLES
  pc,               \* position of the script
  error,            \* uncaught exception that ended the script, or "none"
  pts,              \* v_trees_pts: TREE_IDs in cursor order
  crowns,           \* v_trees_poly: TREE_IDs in cursor order
  perim,            \* CROWN_PERIM of each crown's hull line
  CLE_PERC,         \* the CLE_PERC field of v_trees_poly
  v_hulls_line,     \* whether the hull line dataset exists
  i,                \* progress counter
  tree_id,          \* TREE_ID of the row the cursor is on (0: none yet)
  locals,           \* n_surr, tree_h, max_h, n_higher of this iteration
  r_surr_tb,        \* clipped raster
  v_surr_tb_higher, \* obstruction polygons
  v_shadow,         \* shadow hulls
  v_hull_shadow,    \* hull line clipped with the shadow
  temps,            \* per-tree temporary datasets that exist
  cle_values,       \* result map
  j,                \* rows the update cursor has passed
  stages,           \* history: steps run for the tree of this iteration
  writes,           \* history: assignments made to each key of cle_values
  t_near,           \* distance_direction: rows of the near table
  BLD_DIR           \* distance_direction: BLD_DIR_1 values copied to trees

cleVars == <<pc, error, pts, crowns, perim, CLE_PERC, v_hulls_line, i, tree_id,
             locals, r_surr_tb, v_surr_tb_higher, v_shadow, v_hull_shadow,
             temps, cle_values, j, stages, writes>>
nearVars == <<t_near, BLD_DIR>>
vars == <<cleVars, nearVars>>

\* ------------------------------------------------------------ values
TreeIds == 1..MaxTrees
Segs == 1..MaxPerim
Cells == 1..MaxCells
TreeHeights == 0..MaxH
\* one elevation below the vertical datum, and the elevations 0..MaxH
BelowDatum == 0 - 1
CellHeights == {BelowDatum} \cup (0..MaxH)

EmptyMap == <<>>
One == [num |-> 1, den |-> 1]
Sentinel == [num |-> 0 - 999, den |-> 1]
Null == [num |-> 0, den |-> 0]

IsOne(c) == c.den > 0 /\ c.num = c.den
InUnit(c) == c.den > 0 /\ 0 <= c.num /\ c.num <= c.den

\* 1 - ratio
OneMinus(ratio) == [num |-> ratio.den - ratio.num, den |-> ratio.den]

IncSeqs == {s \in UNION {[1..n -> TreeIds] : n \in 0..MaxTrees} :
              \A a, b \in DOMAIN s : a < b => s[a] < s[b]}
Range(s) == {s[k] : k \in DOMAIN s}

Rasters == UNION {[D -> CellHeights] : D \in (SUBSET Cells) \ {{}}}
MaxOf(r) == CHOOSE m \in Range(r) : \A v \in Range(r) : v <= m

\* ------------------------------------------------------- pure steps
\* Reclassify_sa with remap "0 h NODATA;h 10000 1" and missing values DATA:
\* a value on the shared boundary h belongs to the lower range, a value in
\* no range keeps its value.
Reclassify(r, h) ==
  LET keep == {c \in DOMAIN r : ~(RemapLo <= r[c] /\ r[c] <= h)}
  IN [c \in keep |-> IF h < r[c] /\ r[c] <= RemapHi THEN 1 ELSE r[c]]

\* RasterToPolygon_conversion: one polygon per maximal run of adjacent
\* data cells of equal value.
Region(m, c) ==
  {d \in DOMAIN m :
     \A e \in (IF c < d THEN c ELSE d)..(IF c < d THEN d ELSE c) :
        e \in DOMAIN m /\ m[e] = m[c]}
RasterToPolygon(m) == {Region(m, c) : c \in DOMAIN m}

\* The hull line selected by "TREE_ID = tree_id".
HullLine(t) == IF t \in Range(crowns) THEN 1..perim[t] ELSE {}

\* Clip_analysis of a line with a set of polygons.
ClipLine(line, hulls) == line \cap UNION hulls

\* Dissolve_management with FIRST of CROWN_PERIM, then the ratio field:
\* no row when there is nothing to dissolve.
Dissolve(lines, t) ==
  IF lines = {} THEN <<>>
  ELSE << [num |-> Cardinality(lines), den |-> perim[t]] >>

\* cle_perc = -999; for row3 in cursor3: cle_perc = 1 - row3[0]
RatioOf(rows) == IF Len(rows) = 0 THEN Sentinel ELSE OneMinus(rows[Len(rows)])

Record(k, v) ==
  /\ cle_values' = (k :> v) @@ cle_values
  /\ writes' = (k :> (IF k \in DOMAIN writes THEN writes[k] + 1 ELSE 1)) @@ writes

\* ------------------------------------------------------------- Init
NearIdle == t_near = <<>> /\ BLD_DIR = <<>>

Init ==
  /\ pc = "loop"
  /\ error = "none"
  /\ pts \in IncSeqs
  /\ crowns \in IncSeqs
  /\ \E p \in 1..MaxPerim : perim = [c \in Range(crowns) |-> p]
  /\ CLE_PERC = [c \in Range(crowns) |-> Null]
  /\ v_hulls_line = TRUE
  /\ i = 0
  /\ tree_id = 0
  /\ locals = EmptyMap
  /\ r_surr_tb = EmptyMap
  /\ v_surr_tb_higher = {}
  /\ v_shadow = {}
  /\ v_hull_shadow = {}
  /\ temps = {}
  /\ cle_values = EmptyMap
  /\ j = 0
  /\ stages = <<>>
  /\ writes = EmptyMap
  /\ NearIdle

inputs == <<pts, crowns, perim>>

\* ---------------------------------------------------- per-tree loop
\* Buffer, clip of trees and buildings, merge, count.
StartTree ==
  /\ pc = "loop"
  /\ i < Len(pts)
  /\ tree_id' = pts[i + 1]
  /\ \E n \in 0..MaxSurr : locals' = [n_surr |-> n]
  /\ temps' = (temps \cup {"buf", "st", "sb", "stb"}) \ {"buf", "sb", "st"}
  /\ stages' = <<"select_neighbors">>
  /\ pc' = "n_surr"
  /\ UNCHANGED <<error, inputs, CLE_PERC, v_hulls_line, i, r_surr_tb,
                 v_surr_tb_higher, v_shadow, v_hull_shadow, cle_values, j,
                 writes, nearVars>>

\* n_surr > 0 is false.
NoNeighbors ==
  /\ pc = "n_surr"
  /\ ~(locals.n_surr > 0)
  /\ temps' = temps \ {"stb"}
  /\ stages' = stages \o <<"NEIGHBORS_FOUND?">>
  /\ pc' = "compute"
  /\ UNCHANGED <<error, inputs, CLE_PERC, v_hulls_line, i, tree_id, locals,
                 r_surr_tb, v_surr_tb_higher, v_shadow, v_hull_shadow,
                 cle_values, j, writes, nearVars>>

\* n_surr > 0: clip the raster, read tree_h and max_h.
ClipRaster ==
  /\ pc = "n_surr"
  /\ locals.n_surr > 0
  /\ \E r \in Rasters, h \in TreeHeights :
       /\ r_surr_tb' = r
       /\ locals' = [n_surr |-> locals.n_surr, tree_h |-> h, max_h |-> MaxOf(r)]
  /\ temps' = (temps \cup {"stb_r"}) \ {"stb"}
  /\ stages' = stages \o <<"NEIGHBORS_FOUND?", "clip_raster">>
  /\ pc' = "max_h"
  /\ UNCHANGED <<error, inputs, CLE_PERC, v_hulls_line, i, tree_id,
                 v_surr_tb_higher, v_shadow, v_hull_shadow, cle_values, j,
                 writes, nearVars>>

\* n_surr > 0 and the cell under the trunk is no-data: GetCellValue gives
\* the text "NoData" and float() raises; nothing catches it.
ClipRasterNoData ==
  /\ pc = "n_surr"
  /\ locals.n_surr > 0
  /\ \E r \in Rasters : r_surr_tb' = r
  /\ temps' = (temps \cup {"stb_r"}) \ {"stb"}
  /\ stages' = stages \o <<"NEIGHBORS_FOUND?", "clip_raster">>
  /\ error' = "ValueError"
  /\ pc' = "aborted"
  /\ UNCHANGED <<inputs, CLE_PERC, v_hulls_line, i, tree_id, locals,
                 v_surr_tb_higher, v_shadow, v_hull_shadow, cle_values, j,
                 writes, nearVars>>

\* HeightNotExceeded with the else-branch's Delete_management left out.
HeightNotExceeded_NoDelete ==
  /\ pc = "max_h"
  /\ ~(locals.max_h >= locals.tree_h)
  /\ stages' = stages \o <<"HEIGHT_EXCEEDED?">>
  /\ pc' = "compute"
  /\ UNCHANGED <<error, inputs, CLE_PERC, v_hulls_line, i, tree_id, locals,
                 r_surr_tb, v_surr_tb_higher, v_shadow, v_hull_shadow, temps,
                 cle_values, j, writes, nearVars>>

\* max_h >= tree_h is false.
HeightNotExceeded ==
  /\ pc = "max_h"
  /\ ~(locals.max_h >= locals.tree_h)
  /\ temps' = temps \ {"stb_r"}
  /\ r_surr_tb' = EmptyMap
  /\ stages' = stages \o <<"HEIGHT_EXCEEDED?">>
  /\ pc' = "compute"
  /\ UNCHANGED <<error, inputs, CLE_PERC, v_hulls_line, i, tree_id, locals,
                 v_surr_tb_higher, v_shadow, v_hull_shadow, cle_values, j,
                 writes, nearVars>>

\* max_h >= tree_h: threshold, vectorise, count.
Threshold ==
  /\ pc = "max_h"
  /\ locals.max_h >= locals.tree_h
  /\ LET polys == RasterToPolygon(Reclassify(r_surr_tb, locals.tree_h))
     IN /\ v_surr_tb_higher' = polys
        /\ locals' = [n_surr |-> locals.n_surr, tree_h |-> locals.tree_h,
                      max_h |-> locals.max_h, n_higher |-> Cardinality(polys)]
  /\ temps' = (((temps \cup {"stbh_r"}) \ {"stb_r"}) \cup {"stbh"}) \ {"stbh_r"}
  /\ r_surr_tb' = EmptyMap
  /\ stages' = stages \o <<"HEIGHT_EXCEEDED?", "threshold">>
  /\ pc' = "n_higher"
  /\ UNCHANGED <<error, inputs, CLE_PERC, v_hulls_line, i, tree_id, v_shadow,
                 v_hull_shadow, cle_values, j, writes, nearVars>>

\* n_higher == 0: cle_perc = 1.0 is recorded ...
NoHigherRecord ==
  /\ pc = "n_higher"
  /\ locals.n_higher = 0
  /\ Record(tree_id, One)
  /\ stages' = stages \o <<"OBSTRUCTIONS_FOUND?">>
  /\ pc' = "n_higher_0"
  /\ UNCHANGED <<error, inputs, CLE_PERC, v_hulls_line, i, tree_id, locals,
                 r_surr_tb, v_surr_tb_higher, v_shadow, v_hull_shadow, temps,
                 j, nearVars>>

\* NoHigherContinue with the `continue` left out: control falls through to
\* "Compute CLE".
NoHigherContinue_FallThrough ==
  /\ pc = "n_higher_0"
  /\ temps' = temps \ {"stbh"}
  /\ v_surr_tb_higher' = {}
  /\ i' = i + 1
  /\ pc' = "compute"
  /\ UNCHANGED <<error, inputs, CLE_PERC, v_hulls_line, tree_id, locals,
                 r_surr_tb, v_shadow, v_hull_shadow, cle_values, j, stages,
                 writes, nearVars>>

\* ... then the polygons are deleted, progress is reported, and the loop
\* continues with the next row.
NoHigherContinue ==
  /\ pc = "n_higher_0"
  /\ temps' = temps \ {"stbh"}
  /\ v_surr_tb_higher' = {}
  /\ i' = i + 1
  /\ pc' = "loop"
  /\ UNCHANGED <<error, inputs, CLE_PERC, v_hulls_line, tree_id, locals,
                 r_surr_tb, v_shadow, v_hull_shadow, cle_values, j, stages,
                 writes, nearVars>>

\* n_higher > 0: vertices to points, the trunk point added to each group,
\* one convex hull per OBST_ID.
BuildShadow ==
  /\ pc = "n_higher"
  /\ ~(locals.n_higher = 0)
  /\ \E cover \in [v_surr_tb_higher -> SUBSET Segs] :
       v_shadow' = {cover[g] : g \in v_surr_tb_higher}
  /\ temps' = (((temps \cup {"stbp"}) \ {"stbh"}) \cup {"shadow"}) \ {"stbp"}
  /\ v_surr_tb_higher' = {}
  /\ stages' = stages \o <<"OBSTRUCTIONS_FOUND?", "shadow_hulls">>
  /\ pc' = "clip"
  /\ UNCHANGED <<error, inputs, CLE_PERC, v_hulls_line, i, tree_id, locals,
                 r_surr_tb, v_hull_shadow, cle_values, j, writes, nearVars>>

\* Select the tree's hull line and clip it with the shadow.
ClipHull ==
  /\ pc = "clip"
  /\ v_hull_shadow' = ClipLine(HullLine(tree_id), v_shadow)
  /\ temps' = (temps \cup {"bs"}) \ {"shadow"}
  /\ v_shadow' = {}
  /\ stages' = stages \o <<"perimeter_clip">>
  /\ pc' = "compute"
  /\ UNCHANGED <<error, inputs, CLE_PERC, v_hulls_line, i, tree_id, locals,
                 r_surr_tb, v_surr_tb_higher, cle_values, j, writes, nearVars>>

\* Compute with the else-branch left out: cle_perc keeps its initial -999.
Compute_NoElse ==
  /\ pc = "compute"
  /\ IF "bs" \in temps
       THEN /\ Record(tree_id, RatioOf(Dissolve(v_hull_shadow, tree_id)))
            /\ temps' = (((temps \cup {"md"}) \ {"bs"}) \ {"md"})
            /\ stages' = stages \o <<"ratio">>
       ELSE /\ Record(tree_id, Sentinel)
            /\ temps' = temps
            /\ stages' = stages
  /\ v_hull_shadow' = {}
  /\ i' = i + 1
  /\ pc' = "loop"
  /\ UNCHANGED <<error, inputs, CLE_PERC, v_hulls_line, tree_id, locals,
                 r_surr_tb, v_surr_tb_higher, v_shadow, j, nearVars>>

\* Compute CLE, record it, report progress.
Compute ==
  /\ pc = "compute"
  /\ IF "bs" \in temps
       THEN /\ Record(tree_id, RatioOf(Dissolve(v_hull_shadow, tree_id)))
            /\ temps' = (((temps \cup {"md"}) \ {"bs"}) \ {"md"})
            /\ stages' = stages \o <<"ratio">>
       ELSE /\ Record(tree_id, One)
            /\ temps' = temps
            /\ stages' = stages
  /\ v_hull_shadow' = {}
  /\ i' = i + 1
  /\ pc' = "loop"
  /\ UNCHANGED <<error, inputs, CLE_PERC, v_hulls_line, tree_id, locals,
                 r_surr_tb, v_surr_tb_higher, v_shadow, j, nearVars>>

\* ------------------------------------------------------- write-back
\* The cursor is exhausted: delete the hull lines, open the update cursor.
EndLoop ==
  /\ pc = "loop"
  /\ ~(i < Len(pts))
  /\ v_hulls_line' = FALSE
  /\ pc' = "writeback"
  /\ UNCHANGED <<error, inputs, CLE_PERC, i, tree_id, locals, r_surr_tb,
                 v_surr_tb_higher, v_shadow, v_hull_shadow, temps, cle_values,
                 j, stages, writes, nearVars>>

\* row[1] = cle_values[tree_id]; updateRow.
WriteBackRow ==
  /\ pc = "writeback"
  /\ j < Len(crowns)
  /\ crowns[j + 1] \in DOMAIN cle_values
  /\ CLE_PERC' = [CLE_PERC EXCEPT ![crowns[j + 1]] = cle_values[crowns[j + 1]]]
  /\ j' = j + 1
  /\ UNCHANGED <<pc, error, inputs, v_hulls_line, i, tree_id, locals,
                 r_surr_tb, v_surr_tb_higher, v_shadow, v_hull_shadow, temps,
                 cle_values, stages, writes, nearVars>>

\* The crown's TREE_ID is no key of cle_values: KeyError, uncaught.
WriteBackKeyError ==
  /\ pc = "writeback"
  /\ j < Len(crowns)
  /\ crowns[j + 1] \notin DOMAIN cle_values
  /\ error' = "KeyError"
  /\ pc' = "aborted"
  /\ UNCHANGED <<inputs, CLE_PERC, v_hulls_line, i, tree_id, locals,
                 r_surr_tb, v_surr_tb_higher, v_shadow, v_hull_shadow, temps,
                 cle_values, j, stages, writes, nearVars>>

WriteBackEnd ==
  /\ pc = "writeback"
  /\ ~(j < Len(crowns))
  /\ pc' = "done"
  /\ UNCHANGED <<error, inputs, CLE_PERC, v_hulls_line, i, tree_id, locals,
                 r_surr_tb, v_surr_tb_higher, v_shadow, v_hull_shadow, temps,
                 cle_values, j, stages, writes, nearVars>>

Next ==
  \/ StartTree
  \/ NoNeighbors
  \/ ClipRaster
  \/ ClipRasterNoData
  \/ HeightNotExceeded
  \/ Threshold
  \/ NoHigherRecord
  \/ NoHigherContinue
  \/ BuildShadow
  \/ ClipHull
  \/ Compute
  \/ EndLoop
  \/ WriteBackRow
  \/ WriteBackKeyError
  \/ WriteBackEnd

Spec == Init /\ [][Next]_vars

\* ------------------------------------------------ distance_direction
Angles == (0 - AngleSpan)..MaxAngle

\* toAzimuth without the wrap of negative values.
toAzimuth_NoWrap(angle) == (0 - 1) * angle + 90

toAzimuth(angle) ==
  LET azimuth == (0 - 1) * angle + 90
  IN IF azimuth < 0 THEN 360 + azimuth ELSE azimuth

CleIdle ==
  /\ error = "none"
  /\ pts = <<>> /\ crowns = <<>> /\ perim = EmptyMap /\ CLE_PERC = EmptyMap
  /\ v_hulls_line = FALSE
  /\ i = 0 /\ tree_id = 0 /\ locals = EmptyMap /\ r_surr_tb = EmptyMap
  /\ v_surr_tb_higher = {} /\ v_shadow = {} /\ v_hull_shadow = {}
  /\ temps = {} /\ cle_values = EmptyMap /\ j = 0 /\ stages = <<>>
  /\ writes = EmptyMap

InitNear ==
  /\ pc = "near_table"
  /\ CleIdle
  /\ NearIdle

\* GenerateNearTable_analysis with angle="ANGLE": one tree with one building
\* in range.
GenerateNearTable ==
  /\ pc = "near_table"
  /\ \E a \in Angles : t_near' = << [NEAR_RANK |-> 1, NEAR_ANGLE |-> a] >>
  /\ pc' = "azimuth"
  /\ UNCHANGED <<error, inputs, CLE_PERC, v_hulls_line, i, tree_id, locals,
                 r_surr_tb, v_surr_tb_higher, v_shadow, v_hull_shadow, temps,
                 cle_values, j, stages, writes, BLD_DIR>>

\* AddField azimuth; CalculateField toAzimuth(!NEAR_ANGLE!) on every row.
CalculateAzimuth ==
  /\ pc = "azimuth"
  /\ t_near' = [k \in DOMAIN t_near |->
                  [NEAR_RANK |-> t_near[k].NEAR_RANK,
                   NEAR_ANGLE |-> t_near[k].NEAR_ANGLE,
                   azimuth |-> toAzimuth(t_near[k].NEAR_ANGLE)]]
  /\ pc' = "copy"
  /\ UNCHANGED <<error, inputs, CLE_PERC, v_hulls_line, i, tree_id, locals,
                 r_surr_tb, v_surr_tb_higher, v_shadow, v_hull_shadow, temps,
                 cle_values, j, stages, writes, BLD_DIR>>

\* The rows of rank 1 are joined to the trees and azimuth is copied to
\* BLD_DIR_1; the near table is deleted.
JoinAndCopy ==
  /\ pc = "copy"
  /\ BLD_DIR' = [k \in {n \in DOMAIN t_near : t_near[n].NEAR_RANK = 1} |->
                   t_near[k].azimuth]
  /\ t_near' = <<>>
  /\ pc' = "near_done"
  /\ UNCHANGED <<error, inputs, CLE_PERC, v_hulls_line, i, tree_id, locals,
                 r_surr_tb, v_surr_tb_higher, v_shadow, v_hull_shadow, temps,
                 cle_values, j, stages, writes>>

NextNear ==
  \/ GenerateNearTable
  \/ CalculateAzimuth
  \/ JoinAndCopy

SpecNear == InitNear /\ [][NextNear]_vars

\* ============================================================ claims
Finished == tree_id \in DOMAIN cle_values
Has(name) == name \in DOMAIN locals
Ran(step) == \E k \in DOMAIN stages : stages[k] = step
Decisions == <<"NEIGHBORS_FOUND?", "HEIGHT_EXCEEDED?", "OBSTRUCTIONS_FOUND?">>
IsDecision(s) == \E k \in DOMAIN Decisions : Decisions[k] = s
NoNeighboursFound == Has("n_surr") /\ locals.n_surr = 0
HeightNotReached == Has("max_h") /\ locals.max_h < locals.tree_h
NoObstructionFound == Has("n_higher") /\ locals.n_higher = 0
Untouched == \A c \in DOMAIN CLE_PERC : CLE_PERC[c] = Null
\* every crown has its trunk point and every trunk point its crown
OneToOne == Range(pts) = Range(crowns)

\* C1: after a complete run every crown with a trunk point holds the value
\* recorded for its TREE_ID, and that value is a ratio in [0,1] or 1.0.
C1_EveryCrownEndsWithValidCLE ==
  pc = "done" =>
    \A c \in Range(crowns) :
      c \in Range(pts) =>
        /\ c \in DOMAIN cle_values
        /\ CLE_PERC[c] = cle_values[c]
        /\ (InUnit(CLE_PERC[c]) \/ IsOne(CLE_PERC[c]))

\* C2: the three decisions are evaluated in the order neighbours-found,
\* height-exceeded, obstructions-found; when one of them is false no later
\* stage (shadow hulls, perimeter clip, ratio) runs for the tree and the tree
\* finishes with CLE = 1.0.
C2_ShortCircuitGivesOne ==
  /\ LET d == SelectSeq(stages, IsDecision)
     IN Len(d) <= Len(Decisions) /\ d = SubSeq(Decisions, 1, Len(d))
  /\ (NoNeighboursFound \/ HeightNotReached \/ NoObstructionFound) =>
       /\ ~Ran("shadow_hulls") /\ ~Ran("perimeter_clip") /\ ~Ran("ratio")
       /\ Finished => cle_values[tree_id] = One
  /\ NoNeighboursFound => ~Ran("clip_raster") /\ ~Ran("threshold")
  /\ HeightNotReached => ~Ran("threshold")

C2_Witness ==
  /\ pc = "loop" /\ Finished
  /\ HeightNotReached
  /\ cle_values[tree_id] = One
  /\ i = 2

\* C3: a tree whose perimeter clip is empty is recorded with CLE = 1.0.
C3_EmptyClipGivesOne ==
  [][(OneToOne /\ pc = "compute" /\ "bs" \in temps /\ v_hull_shadow = {}
        /\ pc' = "loop")
       => IsOne(cle_values'[tree_id])]_vars

\* C4: a value computed on the full shadow-clip path lies in [0,1].
C4_FullPathValueInUnitInterval ==
  (OneToOne /\ Finished /\ Ran("perimeter_clip")) => InUnit(cle_values[tree_id])

\* C5: a failure while one tree is processed does not end the batch: the
\* tree gets a result other than 1.0 and the script goes on.
C5_FailureDoesNotEndBatch ==
  (OneToOne /\ Ran("clip_raster") /\ ~Has("tree_h")) =>
    /\ pc # "aborted"
    /\ Finished
    /\ ~IsOne(cle_values[tree_id])

\* C6: a crown without a trunk point aborts the run before any tree is
\* processed and before any CLE_PERC changes.
C6_MissingTrunkAbortsBeforeProcessing ==
  error = "KeyError" => (i = 0 /\ cle_values = EmptyMap /\ Untouched)

\* C7: every key of the result map is assigned exactly once, and no CLE_PERC
\* is written before every tree has its result.
C7_WriteOnceThenWriteBack ==
  /\ DOMAIN writes = DOMAIN cle_values
  /\ \A k \in DOMAIN writes : writes[k] = 1
  /\ DOMAIN cle_values \subseteq Range(pts)
  /\ (pc \in {"writeback", "done"} \/ ~Untouched) =>
       /\ i = Len(pts)
       /\ Range(pts) \subseteq DOMAIN cle_values
       /\ pc \in {"writeback", "done", "aborted"}

C7_Witness ==
  /\ pc = "done"
  /\ Len(pts) = 2
  /\ Range(crowns) = Range(pts)
  /\ \A c \in Range(crowns) : CLE_PERC[c] = cle_values[c]
  /\ NoObstructionFound

\* C8 as stated: every temporary of a tree is deleted by the time the tree's
\* result is recorded, and none exists when the next tree starts or when
\* write-back runs.
C8_TempsDeletedWhenRecorded ==
  OneToOne =>
    /\ Finished => temps = {}
    /\ pc \in {"loop", "writeback", "done"} => temps = {}

\* C8 as amended: every temporary of a tree is deleted by the end of the
\* tree's iteration, so none exists when the next tree starts or when
\* write-back runs; when the result is recorded only the obstruction polygons
\* of the zero-obstruction exit can still exist, and they are deleted next.
C8_TempsDeletedAtIterationEnd ==
  /\ pc \in {"loop", "writeback", "done"} => temps = {}
  /\ error = "KeyError" => temps = {}
  /\ Finished => temps \subseteq {"stbh"}
  /\ (Finished /\ temps # {}) => (pc = "n_higher_0" /\ NoObstructionFound)

C8_Witness ==
  /\ pc = "loop" /\ Finished /\ temps = {}
  /\ NoObstructionFound /\ Ran("threshold")
  /\ i = 2

\* C9: toAzimuth(a) = (90 - a) mod 360, in [0,360), for a in -180..180 and
\* in 0..359; toAzimuth(90) = 0, toAzimuth(0) = 90, toAzimuth(180) = 270,
\* toAzimuth(-45) = 135.
C9_AzimuthIsNinetyMinusAngleMod360 ==
  /\ \A k \in DOMAIN t_near :
       "azimuth" \in DOMAIN t_near[k] =>
         LET a == t_near[k].NEAR_ANGLE
             z == t_near[k].azimuth
         IN /\ z = (90 - a) % 360
            /\ 0 <= z /\ z < 360
            /\ (a = 90 => z = 0)
            /\ (a = 0 => z = 90)
            /\ (a = 180 => z = 270)
            /\ (a = 0 - 45 => z = 135)
  /\ \A k \in DOMAIN BLD_DIR : 0 <= BLD_DIR[k] /\ BLD_DIR[k] < 360

C9_Witness ==
  /\ pc = "copy"
  /\ t_near[1].NEAR_ANGLE = 180
  /\ t_near[1].azimuth = 270

\* C10: thresholding keeps exactly the cells strictly higher than the tree,
\* and a tree with h_max = h_tree ends with zero obstruction polygons.
C10_MaskIsStrictlyHigherCells ==
  [][(OneToOne /\ pc = "max_h" /\ pc' = "n_higher") =>
       /\ \A c \in DOMAIN r_surr_tb :
            (c \in UNION v_surr_tb_higher') <=> (r_surr_tb[c] > locals.tree_h)
       /\ locals.max_h = locals.tree_h => locals'.n_higher = 0]_vars

====
